---- MODULE Spec2Model ----
(***************************************************************************)
(* RuVectorEmbeddings (examples/onnx-embeddings/src/ruvector_integration.rs) *)
(* as a state machine: one action per public method.  The vector store      *)
(* (ruvector_core::VectorIndex<MemoryStore>) and the Embedder are           *)
(* collaborators defined elsewhere; they are modelled from their contract   *)
(* (the Store* and Embed* definitions).  RuVectorBuilder and RagPipeline of *)
(* the same file follow, each with a specification of its own, and the SQL  *)
(* vector functions of crates/ruvector-postgres/src/operators.rs, applied   *)
(* to arguments drawn from bounded sets.                                     *)
(***************************************************************************)
EXTENDS Integers, Sequences, FiniteSets, TLC

\* ------------------------------------------------------------------ bounds
MaxId == 2        \* the store's capacity: VectorIds are 1..MaxId
MaxBatch == 2     \* longest batch handed to insert_batch*
MaxK == 2         \* largest k handed to a search

\* embedder.dimension(), fixed at construction
dimension == 2

Ids == 1..MaxId
Texts == {"a", "b"}
MetaValues == {"m1"}
NoMeta == "None"
Metadata == MetaValues \cup {NoMeta}
\* A caller's predicate over metadata, given by the values it accepts.
Filters == SUBSET MetaValues
\* k stays far below usize::MAX / 4: k * 2 and k * 4 do not overflow here.
Ks == 0..MaxK

\* ---------------------------------------------------------------- embedder
\* Embedder::embed_one on success: a vector of the embedder's dimension.
EmbedOne(text) == IF text = "a" THEN <<0, 1>> ELSE <<1, 1>>

RECURSIVE Embed(_)
\* Embedder::embed on success: one vector per text, in order.
Embed(txts) ==
    IF txts = <<>> THEN <<>>
    ELSE <<EmbedOne(Head(txts))>> \o Embed(Tail(txts))

\* Vectors a caller may hand to the *_with_embedding methods: of the right
\* dimension, and one element too long.
GoodVectors == {EmbedOne(t) : t \in Texts}
BadVectors == {[i \in 1..(dimension + 1) |-> 1]}
Vectors == GoodVectors \cup BadVectors

SeqsUpTo(S, n) == UNION {[1..m -> S] : m \in 0..n}
TextBatches == SeqsUpTo(Texts, MaxBatch)
VectorBatches == SeqsUpTo(Vectors, MaxBatch)

VARIABLES
    store,      \* the index: VectorId -> [vector, metadata] of the entries it holds
    texts,      \* self.texts: VectorId -> original text
    ret,        \* the last call: its arguments, the store calls it made, its result
    deleted,    \* history: ids for which delete returned Ok(true), until reassigned
    builder,    \* a RuVectorBuilder, the setters called on it, what build() did
    top_k,      \* RagPipeline.top_k
    rag,        \* the call of the RagPipeline this step made, if it made one
    applied,    \* the last SQL vector function applied: its arguments and outcome
    created     \* what RuVectorEmbeddings::new fixed: self.name, the store's config

vars == <<store, texts, ret, deleted, builder, top_k, rag, applied, created>>

\* what the methods of the index leave alone; none of them assigns self.name or
\* reconfigures the store
outside == <<builder, top_k, applied, created>>

\* ------------------------------------------------------------ call records
\* -------------------------------------------------------------- f32 values
\* An f32 is kept as a whole number of 1/Scale: products and quotients lose what
\* lies below that, as they do below the precision of an f32.
Scale == 1000

Num(milli) == [kind |-> "num", milli |-> milli]
\* NaN or an infinity: what a division by zero leaves
NonFinite == [kind |-> "nonfinite", milli |-> 0]
Zero == Num(0)
One == Num(Scale)
FromInt(n) == Num(n * Scale)
IsNum(x) == x.kind = "num"

\* usize and i32 values are kept in 16-bit halves: [hi, lo] is hi * 2^16 + lo
Half == 2^16
USize(n) == [hi |-> n \div Half, lo |-> n % Half]

\* What a SQL vector function leaves: an error raised with pgrx::error! (its text
\* and the lengths it reports), or a scalar, a vector or a count, each a
\* sequence of at most one value; `divisor` is what a division divided by.
NoResult ==
    [ok |-> TRUE, text |-> "", lens |-> <<>>, value |-> <<>>, vector |-> <<>>,
     dims |-> <<>>, divisor |-> <<>>]

\* no call of the RagPipeline yet; a prompt is the sequence of the pieces pushed
\* onto the String
NoRetrieval ==
    [op |-> "new", query |-> "", status |-> "Ok", contexts |-> <<>>, prompt |-> <<>>]

\* no SQL vector function applied yet
NoApplication ==
    [fn |-> "none", a |-> <<>>, b |-> <<>>, scalar |-> Zero, count |-> USize(0),
     result |-> NoResult]

NoCall ==
    [op |-> "new", text |-> "", txts |-> <<>>, vecs |-> <<>>, meta |-> NoMeta,
     id |-> 0, k |-> 0, accept |-> {},
     status |-> "Ok", ids |-> <<>>, flag |-> FALSE, results |-> <<>>, got |-> <<>>,
     expected |-> 0, actual |-> 0,
     calls |-> <<>>, storeOk |-> TRUE, storeFlag |-> FALSE, hits |-> <<>>,
     embedOk |-> TRUE, count |-> 0, name |-> ""]

StoreCall(op, vecs, id, k, ef) ==
    [op |-> op, vecs |-> vecs, id |-> id, k |-> k, ef_search |-> ef]

\* EmbeddingError::ruvector(e.to_string()): a store error, wrapped
RuVectorError == "RuVector"
\* EmbeddingError::dimension_mismatch(expected, actual)
DimensionMismatch == "DimensionMismatch"
\* the embedder's error turned into a store error on the way out
EmbedderErrorWrapped == RuVectorError

\* whatever the embedder raised, passed on by `?`
EmbedderError == "Embedding"

\* ------------------------------------------------------------------- store
FreeIds == Ids \ DOMAIN store

Put(f, key, val) == [x \in (DOMAIN f) \cup {key} |-> IF x = key THEN val ELSE f[x]]
Drop(f, key) == [x \in (DOMAIN f) \ {key} |-> f[x]]

\* VectorIndex::insert: the ids the store may assign to the entry; none when it
\* refuses it (wrong dimension, no room).
StoreInsertIds(vector) ==
    IF Len(vector) = dimension THEN FreeIds ELSE {}

Injective(s) == \A i, j \in DOMAIN s : i # j => s[i] # s[j]

\* VectorIndex::insert_batch: the entries are inserted in order, each under an id
\* of the store's choosing; the store stops with an error at the first entry it
\* cannot take.  An outcome is the ids assigned before the store stopped and
\* whether it took the whole batch.  `rollback` says whether a failing batch
\* leaves the store as it was (otherwise the entries taken so far stay).
StoreInsertBatchOutcomes(vectors, rollback) ==
    {out \in [ids : UNION {[1..n -> FreeIds] : n \in 0..Len(vectors)}, ok : BOOLEAN] :
        /\ Injective(out.ids)
        /\ \A i \in DOMAIN out.ids : Len(vectors[i]) = dimension
        /\ out.ok => Len(out.ids) = Len(vectors)
        /\ ~out.ok => Len(out.ids) < Len(vectors) \/ out.ids = <<>>
        /\ (~out.ok /\ rollback) => out.ids = <<>>}

RECURSIVE PutAll(_, _, _)
PutAll(f, ids, vals) ==
    IF ids = <<>> THEN f
    ELSE PutAll(Put(f, Head(ids), Head(vals)), Tail(ids), Tail(vals))

Entries(vectors) == [i \in DOMAIN vectors |-> [vector |-> vectors[i], metadata |-> NoMeta]]

\* VectorIndex::len
StoreLen == Cardinality(DOMAIN store)

\* VectorIndex::get: Option<VectorEntry>, as a sequence of at most one entry
StoreGet(id) == IF id \in DOMAIN store THEN <<store[id]>> ELSE <<>>

RECURSIVE SumSq(_, _)
SumSq(a, b) ==
    IF a = <<>> THEN 0
    ELSE (Head(a) - Head(b)) * (Head(a) - Head(b)) + SumSq(Tail(a), Tail(b))

\* The configured metric, as the store computes it for two vectors of its
\* dimension: a distance, lower is closer.
Score(query, id) == SumSq(query, store[id].vector)

\* The store's ranking for a query: by score, ties by id.
Before(query, a, b) ==
    \/ Score(query, a) < Score(query, b)
    \/ Score(query, a) = Score(query, b) /\ a < b

Hit(query, id) ==
    [id |-> id, score |-> Score(query, id), metadata |-> store[id].metadata]

RECURSIVE Ranked(_, _)
\* The entries with ids in S, nearest first.
Ranked(query, S) ==
    IF S = {} THEN <<>>
    ELSE LET best == CHOOSE a \in S : \A b \in S \ {a} : Before(query, a, b) IN
         <<Hit(query, best)>> \o Ranked(query, S \ {best})

Min(a, b) == IF a < b THEN a ELSE b

\* VectorIndex::search on success: the k nearest entries, ranked.
StoreSearch(query, k) ==
    SubSeq(Ranked(query, DOMAIN store), 1, Min(k, StoreLen))

\* Whether the store takes the query at all (it refuses another dimension).
StoreSearchable(query) == Len(query) = dimension

\* ----------------------------------------------------------------- builder
\* RuVectorConfig::default()
RuVectorConfigDefault ==
    [distance |-> "Cosine", m |-> 16, ef_construction |-> 100, max_elements |-> 100000]

IndexName == "index"

\* Values a caller hands to the builder's setters.
Distances == {"Euclidean", "DotProduct"}
Ms == {8, 32}
EfConstructions == {200}
MaxElementss == {1000}

\* EmbeddingError::invalid_config("Embedder is required")
InvalidConfiguration == "InvalidConfiguration"

NotBuilt == [status |-> "none", constructed |-> <<>>]

\* RuVectorBuilder::new(name); `setters` is the history of the setter calls
RuVectorBuilderNew(name) ==
    [name |-> name, embedder |-> "None", config |-> RuVectorConfigDefault,
     setters |-> <<>>, built |-> NotBuilt]

\* ------------------------------------------------------------------ state
Init ==
    /\ store = <<>>
    /\ texts = <<>>
    /\ ret = NoCall
    /\ deleted = {}
    /\ builder = RuVectorBuilderNew(IndexName)
    /\ top_k = MaxK
    /\ rag = NoRetrieval
    /\ created = [name |-> IndexName, config |-> RuVectorConfigDefault]
    /\ applied = NoApplication

\* insert_with_embedding that forgets to record the text
TextsInsertDropped(id, text) == texts

\* self.texts.insert(id, text.to_string())
TextsInsert(id, text) == Put(texts, id, text)

\* insert_with_embedding, called as `call` (by the caller or by insert)
insert_with_embedding(call, text, embedding, metadata) ==
    LET made == <<StoreCall("insert", <<embedding>>, 0, 0, 0)>> IN
    \/ \E id \in StoreInsertIds(embedding) :
        /\ store' = Put(store, id, [vector |-> embedding, metadata |-> metadata])
        /\ texts' = TextsInsert(id, text)
        /\ ret' = [call EXCEPT !.status = "Ok", !.ids = <<id>>, !.calls = made]
        /\ deleted' = deleted \ {id}
    \/ /\ ret' = [call EXCEPT !.status = RuVectorError, !.storeOk = FALSE, !.calls = made]
       /\ UNCHANGED <<store, texts, deleted>>

InsertWithEmbedding ==
    \E text \in Texts, embedding \in Vectors, metadata \in Metadata :
        insert_with_embedding(
            [NoCall EXCEPT !.op = "insert_with_embedding", !.text = text,
                           !.vecs = <<embedding>>, !.meta = metadata],
            text, embedding, metadata)

\* insert: embed the text, then insert_with_embedding
Insert ==
    \E text \in Texts, metadata \in Metadata :
        LET call == [NoCall EXCEPT !.op = "insert", !.text = text, !.meta = metadata] IN
        \/ insert_with_embedding(call, text, EmbedOne(text), metadata)
        \/ /\ ret' = [call EXCEPT !.status = EmbedderError, !.embedOk = FALSE]
           /\ UNCHANGED <<store, texts, deleted>>

\* insert_batch_with_embeddings without its length check
CountsUnchecked(txts, embeddings) == FALSE

\* texts.len() != embeddings.len()
CountsDiffer(txts, embeddings) == Len(txts) # Len(embeddings)

\* the zip run against the texts in reverse order
ZipInsertReversed(map, ids, txts) ==
    [x \in (DOMAIN map) \cup {ids[i] : i \in DOMAIN ids} |->
        IF \E i \in DOMAIN ids : ids[i] = x
        THEN txts[Len(txts) + 1 - (CHOOSE i \in DOMAIN ids : ids[i] = x)]
        ELSE map[x]]

RECURSIVE ZipInsert(_, _, _)
\* for (id, text) in ids.iter().zip(texts.iter()) { self.texts.insert(*id, text) }
ZipInsert(map, ids, txts) ==
    IF ids = <<>> \/ txts = <<>> THEN map
    ELSE ZipInsert(Put(map, Head(ids), Head(txts)), Tail(ids), Tail(txts))

\* insert_batch_with_embeddings, called as `call` (by the caller or by insert_batch)
insert_batch_with_embeddings(call, txts, embeddings, rollback) ==
    IF CountsDiffer(txts, embeddings)
    THEN /\ ret' = [call EXCEPT !.status = DimensionMismatch,
                                !.expected = Len(txts), !.actual = Len(embeddings)]
         /\ UNCHANGED <<store, texts, deleted>>
    ELSE LET made == <<StoreCall("insert_batch", embeddings, 0, 0, 0)>> IN
         \E out \in StoreInsertBatchOutcomes(embeddings, rollback) :
            /\ store' = PutAll(store, out.ids, Entries(embeddings))
            /\ deleted' = deleted \ {out.ids[i] : i \in DOMAIN out.ids}
            /\ IF out.ok
               THEN /\ texts' = ZipInsert(texts, out.ids, txts)
                    /\ ret' = [call EXCEPT !.status = "Ok", !.ids = out.ids,
                                           !.calls = made]
               ELSE /\ texts' = texts
                    /\ ret' = [call EXCEPT !.status = RuVectorError, !.storeOk = FALSE, !.calls = made]

InsertBatchWithEmbeddings(rollback) ==
    \E txts \in TextBatches, embeddings \in VectorBatches :
        insert_batch_with_embeddings(
            [NoCall EXCEPT !.op = "insert_batch_with_embeddings", !.txts = txts,
                           !.vecs = embeddings],
            txts, embeddings, rollback)

\* insert_batch: embed the texts, then insert_batch_with_embeddings
InsertBatch(rollback) ==
    \E txts \in TextBatches :
        LET call == [NoCall EXCEPT !.op = "insert_batch", !.txts = txts] IN
        \/ insert_batch_with_embeddings(call, txts, Embed(txts), rollback)
        \/ /\ ret' = [call EXCEPT !.status = EmbedderError, !.embedOk = FALSE]
           /\ UNCHANGED <<store, texts, deleted>>

\* VectorIndex::delete: the store's answers to delete(id): Ok(true) having
\* dropped the entry it held, Ok(false) when it holds none, or an error.
StoreDeleteAnswers(id) ==
    {[ok |-> TRUE, flag |-> id \in DOMAIN store], [ok |-> FALSE, flag |-> FALSE]}

\* delete that empties the texts map
TextsClearedOnDelete(id, removed) == IF removed THEN <<>> ELSE texts

\* delete with the texts entry left behind
TextsKeptOnDelete(id, removed) == texts

\* if deleted { self.texts.remove(&id); }
TextsAfterDelete(id, removed) == IF removed THEN Drop(texts, id) ELSE texts

\* delete that reports a removal whatever the store answered
DeleteResultTrue(removed) == TRUE

\* Ok(deleted)
DeleteResult(removed) == removed

Delete ==
    \E id \in Ids :
        LET call == [NoCall EXCEPT !.op = "delete", !.id = id]
            made == <<StoreCall("delete", <<>>, id, 0, 0)>> IN
        \E answer \in StoreDeleteAnswers(id) :
            IF answer.ok
            THEN /\ store' = IF answer.flag THEN Drop(store, id) ELSE store
                 /\ texts' = TextsAfterDelete(id, answer.flag)
                 /\ ret' = [call EXCEPT !.status = "Ok",
                                        !.flag = DeleteResult(answer.flag),
                                        !.calls = made, !.storeFlag = answer.flag]
                 /\ deleted' = IF DeleteResult(answer.flag)
                               THEN deleted \cup {id} ELSE deleted
            ELSE /\ ret' = [call EXCEPT !.status = RuVectorError, !.storeOk = FALSE,
                                        !.calls = made]
                 /\ UNCHANGED <<store, texts, deleted>>

\* clear that leaves the texts map as it is
TextsKeptOnClear == texts

\* self.texts.clear()
TextsAfterClear == <<>>

\* clear: the store empties itself or fails
Clear ==
    LET call == [NoCall EXCEPT !.op = "clear"]
        made == <<StoreCall("clear", <<>>, 0, 0, 0)>> IN
    \/ /\ store' = <<>>
       /\ texts' = TextsAfterClear
       /\ ret' = [call EXCEPT !.status = "Ok", !.calls = made]
       /\ UNCHANGED deleted
    \/ /\ ret' = [call EXCEPT !.status = RuVectorError, !.storeOk = FALSE, !.calls = made]
       /\ UNCHANGED <<store, texts, deleted>>

\* get's value when the store answers: Option<(String, Vec<f32>)>, as a sequence
\* of at most one pair
get(id) ==
    LET vector == StoreGet(id) IN
    IF vector # <<>> /\ id \in DOMAIN texts
    THEN <<[text |-> texts[id], vector |-> vector[1].vector]>>
    ELSE <<>>

\* get that takes the text of the entry it returns out of the map
GetTaking ==
    \E id \in Ids :
        /\ ret' = [NoCall EXCEPT !.op = "get", !.id = id, !.got = get(id),
                                 !.calls = <<StoreCall("get", <<>>, id, 0, 0)>>]
        /\ texts' = [x \in (DOMAIN texts) \ {id} |-> texts[x]]
        /\ UNCHANGED <<store, deleted>>

Get ==
    \E id \in Ids :
        LET call == [NoCall EXCEPT !.op = "get", !.id = id]
            made == <<StoreCall("get", <<>>, id, 0, 0)>> IN
        /\ \/ ret' = [call EXCEPT !.status = "Ok", !.got = get(id), !.calls = made]
           \/ ret' = [call EXCEPT !.status = RuVectorError, !.storeOk = FALSE, !.calls = made]
        /\ UNCHANGED <<store, texts, deleted>>

\* SearchParams { k, ef_search: k * 2, .. } of search_with_embedding
EfSearch(k) == k * 2

\* SearchParams { k: k * 4, ef_search: k * 4, .. } of search_filtered
FilteredFetch(k) == k * 4

SearchResult(r) ==
    [id |-> r.id, text |-> texts[r.id], score |-> r.score, metadata |-> r.metadata]

\* let text = self.texts.get(&r.id)?.clone();
HasText(r) == r.id \in DOMAIN texts

RECURSIVE WithTextsUntilMissing(_)
\* take_while in place of filter_map: stops at the first hit without a text
WithTextsUntilMissing(results) ==
    IF results = <<>> \/ ~HasText(Head(results)) THEN <<>>
    ELSE <<SearchResult(Head(results))>> \o WithTextsUntilMissing(Tail(results))

\* every hit of the store returned, with an empty text where the map has none
WithTextsOrEmpty(results) ==
    [i \in DOMAIN results |->
        [id |-> results[i].id,
         text |-> IF HasText(results[i]) THEN texts[results[i].id] ELSE "",
         score |-> results[i].score, metadata |-> results[i].metadata]]

RECURSIVE WithTexts(_)
\* results.into_iter().filter_map(|r| ..).collect() of search_with_embedding
WithTexts(results) ==
    IF results = <<>> THEN <<>>
    ELSE (IF HasText(Head(results)) THEN <<SearchResult(Head(results))>> ELSE <<>>)
         \o WithTexts(Tail(results))

\* if let Some(ref meta) = r.metadata { if !filter(meta) { return None; } }
PassesFilter(r, accept) == r.metadata # NoMeta => r.metadata \in accept

RECURSIVE Filtered(_, _)
\* results.into_iter().filter_map(|r| ..) of search_filtered
Filtered(results, accept) ==
    IF results = <<>> THEN <<>>
    ELSE (IF HasText(Head(results)) /\ PassesFilter(Head(results), accept)
          THEN <<SearchResult(Head(results))>> ELSE <<>>)
         \o Filtered(Tail(results), accept)

\* search_filtered without its .take(k)
TakeAll(s, k) == s

\* .take(k)
Take(s, k) == SubSeq(s, 1, Min(k, Len(s)))

\* search_with_embedding, called as `call` (by the caller or by search)
search_with_embedding(call, query_embedding, k) ==
    LET made == <<StoreCall("search", <<query_embedding>>, 0, k, EfSearch(k))>> IN
    /\ \/ /\ StoreSearchable(query_embedding)
          /\ LET results == StoreSearch(query_embedding, k) IN
             ret' = [call EXCEPT !.status = "Ok", !.results = WithTexts(results),
                                 !.calls = made, !.hits = results]
       \/ ret' = [call EXCEPT !.status = RuVectorError, !.storeOk = FALSE, !.calls = made]
    /\ UNCHANGED <<store, texts, deleted>>

SearchWithEmbedding ==
    \E query_embedding \in Vectors, k \in Ks :
        search_with_embedding(
            [NoCall EXCEPT !.op = "search_with_embedding",
                           !.vecs = <<query_embedding>>, !.k = k],
            query_embedding, k)

\* search: embed the query, then search_with_embedding
search(query, k) ==
    LET call == [NoCall EXCEPT !.op = "search", !.text = query, !.k = k] IN
    \/ search_with_embedding(call, EmbedOne(query), k)
    \/ /\ ret' = [call EXCEPT !.status = EmbedderError, !.embedOk = FALSE]
       /\ UNCHANGED <<store, texts, deleted>>

Search == \E query \in Texts, k \in Ks : search(query, k)

SearchFiltered ==
    \E query \in Texts, k \in Ks, accept \in Filters :
        LET call == [NoCall EXCEPT !.op = "search_filtered", !.text = query,
                                   !.k = k, !.accept = accept]
            query_embedding == EmbedOne(query)
            made == <<StoreCall("search", <<query_embedding>>, 0,
                                FilteredFetch(k), FilteredFetch(k))>> IN
        /\ \/ ret' = [call EXCEPT !.status = EmbedderError, !.embedOk = FALSE]
           \/ /\ StoreSearchable(query_embedding)
              /\ LET results == StoreSearch(query_embedding, FilteredFetch(k)) IN
                 ret' = [call EXCEPT !.status = "Ok",
                                     !.results = Take(Filtered(results, accept), k),
                                     !.calls = made, !.hits = results]
           \/ ret' = [call EXCEPT !.status = RuVectorError, !.storeOk = FALSE, !.calls = made]
        /\ UNCHANGED <<store, texts, deleted>>

\* len: self.index.len()
len == StoreLen

\* VectorIndex::is_empty
StoreIsEmpty == DOMAIN store = {}

Len_ ==
    /\ ret' = [NoCall EXCEPT !.op = "len", !.count = len,
                             !.calls = <<StoreCall("len", <<>>, 0, 0, 0)>>]
    /\ UNCHANGED <<store, texts, deleted>>

\* is_empty: self.index.is_empty()
IsEmpty ==
    /\ ret' = [NoCall EXCEPT !.op = "is_empty", !.flag = StoreIsEmpty,
                             !.calls = <<StoreCall("is_empty", <<>>, 0, 0, 0)>>]
    /\ UNCHANGED <<store, texts, deleted>>

\* name: &self.name
Name ==
    /\ ret' = [NoCall EXCEPT !.op = "name", !.name = created.name]
    /\ UNCHANGED <<store, texts, deleted>>

\* dimension: self.embedder.dimension()
Dimension ==
    /\ ret' = [NoCall EXCEPT !.op = "dimension", !.count = dimension]
    /\ UNCHANGED <<store, texts, deleted>>

\* a method of the index called directly, not through the pipeline
Direct == rag' = NoRetrieval /\ UNCHANGED outside

Mutations(rollback) ==
    \/ InsertWithEmbedding /\ Direct
    \/ Insert /\ Direct
    \/ InsertBatchWithEmbeddings(rollback) /\ Direct
    \/ InsertBatch(rollback) /\ Direct
    \/ Delete /\ Direct
    \/ Clear /\ Direct

Reads ==
    \/ SearchWithEmbedding /\ Direct
    \/ Search /\ Direct
    \/ SearchFiltered /\ Direct
    \/ Get /\ Direct

Next ==
    \/ Mutations(FALSE)
    \/ Reads

\* The store rolls a failing batch back: no failing store call has an effect.
NextAtomic ==
    \/ Mutations(TRUE)
    \/ Reads

Spec == Init /\ [][Next]_vars

SpecAtomic == Init /\ [][NextAtomic]_vars

\* -------------------------------------------------------------- RagPipeline
RECURSIVE TextsOf(_)
\* results.into_iter().map(|r| r.text).collect()
TextsOf(results) ==
    IF results = <<>> THEN <<>> ELSE <<Head(results).text>> \o TextsOf(Tail(results))

\* numbering that starts at 0
LineNumberFromZero(i) == i

\* i + 1, for the i of enumerate()
LineNumber(i) == i + 1

RECURSIVE ContextLines(_, _)
\* for (i, ctx) in contexts.iter().enumerate(), from position i on:
\* prompt.push_str(&format!("[{}] {}\n", i + 1, ctx))
ContextLines(contexts, i) ==
    IF contexts = <<>> THEN <<>>
    ELSE <<"[", ToString(LineNumber(i)), "] ", Head(contexts), "\n">>
         \o ContextLines(Tail(contexts), i + 1)

Prompt(contexts, query) ==
    <<"Context:\n">> \o ContextLines(contexts, 0) \o <<"\nQuestion: ", query>>

\* what the methods of the pipeline leave alone
beside == <<builder, top_k, applied, created>>

\* RagPipeline::retrieve: self.index.search(query, self.top_k)?, then the texts
Retrieve ==
    \E query \in Texts :
        /\ search(query, top_k)
        /\ rag' = [NoRetrieval EXCEPT !.op = "retrieve", !.query = query,
                       !.status = ret'.status,
                       !.contexts = IF ret'.status = "Ok" THEN TextsOf(ret'.results)
                                    ELSE <<>>]
        /\ UNCHANGED beside

\* RagPipeline::format_context: self.retrieve(query)?, then the prompt
FormatContext ==
    \E query \in Texts :
        /\ search(query, top_k)
        /\ LET contexts == TextsOf(ret'.results) IN
           rag' = IF ret'.status = "Ok"
                  THEN [NoRetrieval EXCEPT !.op = "format_context", !.query = query,
                           !.contexts = contexts, !.prompt = Prompt(contexts, query)]
                  ELSE [NoRetrieval EXCEPT !.op = "format_context", !.query = query,
                           !.status = ret'.status]
        /\ UNCHANGED beside

\* RagPipeline::add_documents: self.index.insert_batch(documents)
AddDocuments ==
    /\ InsertBatch(FALSE)
    /\ rag' = [NoRetrieval EXCEPT !.op = "add_documents", !.status = ret'.status]
    /\ UNCHANGED beside

\* RagPipeline::new(index, top_k), over an index that is still empty
InitRag ==
    /\ store = <<>>
    /\ texts = <<>>
    /\ ret = NoCall
    /\ deleted = {}
    /\ builder = RuVectorBuilderNew(IndexName)
    /\ top_k \in Ks
    /\ rag = NoRetrieval
    /\ created = [name |-> IndexName, config |-> RuVectorConfigDefault]
    /\ applied = NoApplication

NextRag ==
    \/ AddDocuments
    \/ Retrieve
    \/ FormatContext

SpecRag == InitRag /\ [][NextRag]_vars

\* Every method of the index and every reading method of the pipeline over it.
Accessors ==
    \/ Len_ /\ Direct
    \/ IsEmpty /\ Direct
    \/ Name /\ Direct
    \/ Dimension /\ Direct

NextFrame ==
    \/ Mutations(FALSE)
    \/ Reads
    \/ Accessors
    \/ Retrieve
    \/ FormatContext

SpecFrame == Init /\ [][NextFrame]_vars

\* ----------------------------------------------------------- builder steps
MaxSetters == 3   \* longest chain of setter calls before build()

\* the state a builder's methods leave alone
index == <<store, texts, ret, deleted, top_k, rag, applied, created>>

Unbuilt == builder.built = NotBuilt /\ Len(builder.setters) < MaxSetters

Setter(field, value) == [field |-> field, value |-> value]

\* RuVectorBuilder::embedder
BuilderEmbedder ==
    /\ Unbuilt
    /\ builder' = [builder EXCEPT !.embedder = "Some",
                                  !.setters = Append(@, Setter("embedder", "Some"))]
    /\ UNCHANGED index

\* RuVectorBuilder::distance
BuilderDistance ==
    /\ Unbuilt
    /\ \E distance \in Distances :
        builder' = [builder EXCEPT !.config.distance = distance,
                                  !.setters = Append(@, Setter("distance", distance))]
    /\ UNCHANGED index

\* RuVectorBuilder::m
BuilderM ==
    /\ Unbuilt
    /\ \E value \in Ms :
        builder' = [builder EXCEPT !.config.m = value,
                                  !.setters = Append(@, Setter("m", value))]
    /\ UNCHANGED index

\* RuVectorBuilder::ef_construction
BuilderEfConstruction ==
    /\ Unbuilt
    /\ \E ef \in EfConstructions :
        builder' = [builder EXCEPT !.config.ef_construction = ef,
                                  !.setters = Append(@, Setter("ef_construction", ef))]
    /\ UNCHANGED index

\* RuVectorBuilder::max_elements
BuilderMaxElements ==
    /\ Unbuilt
    /\ \E max \in MaxElementss :
        builder' = [builder EXCEPT !.config.max_elements = max,
                                  !.setters = Append(@, Setter("max_elements", max))]
    /\ UNCHANGED index

\* build() that goes on to the constructor without an embedder
EmbedderNeverMissing(b) == FALSE

\* self.embedder.ok_or_else(|| EmbeddingError::invalid_config(..))?
EmbedderMissing(b) == b.embedder = "None"

\* RuVectorEmbeddings::new(name, embedder, config): builds the store, which may
\* refuse; `constructed` records the arguments of each constructor call.
RuVectorEmbeddingsNew(name, config) ==
    {[status |-> status, constructed |-> <<[name |-> name, config |-> config]>>] :
        status \in {"Ok", RuVectorError}}

\* RuVectorBuilder::build
Build ==
    /\ builder.built = NotBuilt
    /\ IF EmbedderMissing(builder)
       THEN builder' = [builder EXCEPT
                !.built = [status |-> InvalidConfiguration, constructed |-> <<>>]]
       ELSE \E made \in RuVectorEmbeddingsNew(builder.name, builder.config) :
                builder' = [builder EXCEPT !.built = made]
    /\ UNCHANGED index

\* RuVectorBuilder::new, for the next index
BuilderNew ==
    /\ builder.built # NotBuilt
    /\ builder' = RuVectorBuilderNew(IndexName)
    /\ UNCHANGED index

NextBuilder ==
    \/ BuilderEmbedder
    \/ BuilderDistance
    \/ BuilderM
    \/ BuilderEfConstruction
    \/ BuilderMaxElements
    \/ Build
    \/ BuilderNew

SpecBuilder == Init /\ [][NextBuilder]_vars

\* ------------------------------------------------------ f32 arithmetic
FAdd(x, y) == IF IsNum(x) /\ IsNum(y) THEN Num(x.milli + y.milli) ELSE NonFinite
FSub(x, y) == IF IsNum(x) /\ IsNum(y) THEN Num(x.milli - y.milli) ELSE NonFinite
FNeg(x) == IF IsNum(x) THEN Num(0 - x.milli) ELSE NonFinite
FAbs(x) == IF IsNum(x) THEN Num(IF x.milli < 0 THEN 0 - x.milli ELSE x.milli) ELSE NonFinite
FMul(x, y) ==
    IF IsNum(x) /\ IsNum(y) THEN Num((x.milli * y.milli) \div Scale) ELSE NonFinite
FDiv(x, y) ==
    IF IsNum(x) /\ IsNum(y) /\ y.milli # 0 THEN Num((x.milli * Scale) \div y.milli)
    ELSE NonFinite
\* the == of f32: a NaN equals nothing
FEq(x, y) == IsNum(x) /\ IsNum(y) /\ x.milli = y.milli

RECURSIVE Root(_, _, _)
\* the largest r in lo..hi with r * r <= n
Root(n, lo, hi) ==
    IF lo >= hi THEN lo
    ELSE LET mid == (lo + hi + 1) \div 2 IN
         IF mid * mid <= n THEN Root(n, mid, hi) ELSE Root(n, lo, mid - 1)

FSqrt(x) ==
    IF IsNum(x) /\ x.milli >= 0 THEN Num(Root(x.milli * Scale, 0, 46340)) ELSE NonFinite

RECURSIVE FSum(_)
\* .sum::<f32>()
FSum(xs) == IF xs = <<>> THEN Zero ELSE FAdd(Head(xs), FSum(Tail(xs)))

\* ------------------------------------------------------ crate::distance
Dot(a, b) == FSum([i \in DOMAIN a |-> FMul(a[i], b[i])])
L2Norm(v) == FSqrt(FSum([i \in DOMAIN v |-> FMul(v[i], v[i])]))

euclidean_distance(a, b) ==
    FSqrt(FSum([i \in DOMAIN a |-> FMul(FSub(a[i], b[i]), FSub(a[i], b[i]))]))
\* the negated dot product
inner_product_distance(a, b) == FNeg(Dot(a, b))
\* 1 - dot / (|a| |b|), whatever the division leaves for a zero norm
cosine_distance(a, b) == FSub(One, FDiv(Dot(a, b), FMul(L2Norm(a), L2Norm(b))))
manhattan_distance(a, b) == FSum([i \in DOMAIN a |-> FAbs(FSub(a[i], b[i]))])

\* ------------------------------------------------------ SQL vector functions
MaxDims == 2      \* longest vector handed to a SQL vector function

Elements == {Num(0), Num(1), Num(3000), Num(0 - 4000)}
FloatVectors == SeqsUpTo(Elements, MaxDims)
Scalars == {FromInt(2), Num(0 - 500)}
\* element counts: of the vectors above, and around the ends of i32 and u32
Counts ==
    {USize(Len(v)) : v \in FloatVectors}
    \cup {[hi |-> Half \div 2 - 1, lo |-> Half - 1], [hi |-> Half \div 2, lo |-> 0],
          [hi |-> Half - 1, lo |-> Half - 1], [hi |-> Half, lo |-> 1]}

\* a.len() != b.len()
DimsDiffer(a, b) == Len(a) # Len(b)

\* pgrx::error!("Cannot compute distance between vectors of different dimensions
\* ({} vs {})", a.len(), b.len())
DistanceError(a, b) ==
    [NoResult EXCEPT !.ok = FALSE,
        !.text = "Cannot compute distance between vectors of different dimensions",
        !.lens = <<Len(a), Len(b)>>]

\* pgrx::error!("Vectors must have the same dimensions")
ArithmeticError ==
    [NoResult EXCEPT !.ok = FALSE, !.text = "Vectors must have the same dimensions"]

Scalar(x) == [NoResult EXCEPT !.value = <<x>>]
Vector(v) == [NoResult EXCEPT !.vector = <<v>>]

l2_distance_arr(a, b) ==
    IF DimsDiffer(a, b) THEN DistanceError(a, b) ELSE Scalar(euclidean_distance(a, b))

\* inner_product_arr that forgets to undo the negation of the distance
inner_product_arr_negated(a, b) ==
    IF DimsDiffer(a, b) THEN DistanceError(a, b) ELSE Scalar(inner_product_distance(a, b))

inner_product_arr(a, b) ==
    IF DimsDiffer(a, b) THEN DistanceError(a, b)
    ELSE Scalar(FNeg(inner_product_distance(a, b)))

neg_inner_product_arr(a, b) ==
    IF DimsDiffer(a, b) THEN DistanceError(a, b) ELSE Scalar(inner_product_distance(a, b))

cosine_distance_arr(a, b) ==
    IF DimsDiffer(a, b) THEN DistanceError(a, b) ELSE Scalar(cosine_distance(a, b))

\* 1.0 - cosine_distance_arr(a, b): the error of the inner call ends this one too
cosine_similarity_arr(a, b) ==
    LET distance == cosine_distance_arr(a, b) IN
    IF distance.ok THEN Scalar(FSub(One, distance.value[1])) ELSE distance

l1_distance_arr(a, b) ==
    IF DimsDiffer(a, b) THEN DistanceError(a, b) ELSE Scalar(manhattan_distance(a, b))

\* vector_normalize without its test for a zero norm
vector_normalize_unguarded(v) ==
    LET norm == L2Norm(v) IN
    [Vector([i \in DOMAIN v |-> FDiv(v[i], norm)]) EXCEPT !.divisor = <<norm>>]

vector_normalize(v) ==
    LET norm == L2Norm(v) IN
    IF FEq(norm, Zero) THEN Vector(v)
    ELSE [Vector([i \in DOMAIN v |-> FDiv(v[i], norm)]) EXCEPT !.divisor = <<norm>>]

vector_add(a, b) ==
    IF DimsDiffer(a, b) THEN ArithmeticError
    ELSE Vector([i \in DOMAIN a |-> FAdd(a[i], b[i])])

vector_sub(a, b) ==
    IF DimsDiffer(a, b) THEN ArithmeticError
    ELSE Vector([i \in DOMAIN a |-> FSub(a[i], b[i])])

vector_mul_scalar(v, scalar) == Vector([i \in DOMAIN v |-> FMul(v[i], scalar)])

\* `as i32`: the low 32 bits of the count, read as a signed number
AsI32(count) ==
    LET hi == count.hi % Half IN
    IF hi >= Half \div 2 THEN (hi - Half) * Half + count.lo ELSE hi * Half + count.lo

\* vector_dims, of a vector of `count` elements: v.len() as i32
vector_dims(count) == [NoResult EXCEPT !.dims = <<AsI32(count)>>]

vector_norm(v) == Scalar(L2Norm(v))

vector_avg2(a, b) ==
    IF DimsDiffer(a, b) THEN ArithmeticError
    ELSE Vector([i \in DOMAIN a |-> FDiv(FAdd(a[i], b[i]), FromInt(2))])

\* the state a SQL vector function leaves alone
session == <<store, texts, ret, deleted, builder, top_k, rag, created>>

Apply(fn, result) ==
    /\ applied' = [applied EXCEPT !.fn = fn, !.result = result]
    /\ UNCHANGED session

L2DistanceArr == Apply("l2_distance_arr", l2_distance_arr(applied.a, applied.b))
InnerProductArr == Apply("inner_product_arr", inner_product_arr(applied.a, applied.b))
NegInnerProductArr ==
    Apply("neg_inner_product_arr", neg_inner_product_arr(applied.a, applied.b))
CosineDistanceArr == Apply("cosine_distance_arr", cosine_distance_arr(applied.a, applied.b))
CosineSimilarityArr ==
    Apply("cosine_similarity_arr", cosine_similarity_arr(applied.a, applied.b))
L1DistanceArr == Apply("l1_distance_arr", l1_distance_arr(applied.a, applied.b))
VectorNormalize == Apply("vector_normalize", vector_normalize(applied.a))
VectorAdd == Apply("vector_add", vector_add(applied.a, applied.b))
VectorSub == Apply("vector_sub", vector_sub(applied.a, applied.b))
VectorMulScalar ==
    \E scalar \in Scalars :
        /\ applied' = [applied EXCEPT !.fn = "vector_mul_scalar", !.scalar = scalar,
                                      !.result = vector_mul_scalar(applied.a, scalar)]
        /\ UNCHANGED session
VectorDims ==
    \E count \in Counts :
        /\ applied' = [applied EXCEPT !.fn = "vector_dims", !.count = count,
                                      !.result = vector_dims(count)]
        /\ UNCHANGED session
VectorNorm == Apply("vector_norm", vector_norm(applied.a))
VectorAvg2 == Apply("vector_avg2", vector_avg2(applied.a, applied.b))

\* The arguments a and b of the functions applied in a run.
InitOperators ==
    /\ store = <<>>
    /\ texts = <<>>
    /\ ret = NoCall
    /\ deleted = {}
    /\ builder = RuVectorBuilderNew(IndexName)
    /\ top_k = MaxK
    /\ rag = NoRetrieval
    /\ created = [name |-> IndexName, config |-> RuVectorConfigDefault]
    /\ \E a \in FloatVectors, b \in FloatVectors :
          applied = [NoApplication EXCEPT !.a = a, !.b = b]

NextOperators ==
    \/ L2DistanceArr
    \/ InnerProductArr
    \/ NegInnerProductArr
    \/ CosineDistanceArr
    \/ CosineSimilarityArr
    \/ L1DistanceArr
    \/ VectorNormalize
    \/ VectorAdd
    \/ VectorSub
    \/ VectorMulScalar
    \/ VectorDims
    \/ VectorNorm
    \/ VectorAvg2

SpecOperators == InitOperators /\ [][NextOperators]_vars

\* ------------------------------------------------------------------ claims

\* C1 (invariant I1).  When no failing store call has an effect on the store,
\* after any sequence of inserts, batch inserts, deletes and clears, each
\* succeeding or returning an error, the keys of the texts map are exactly the
\* VectorIds the store holds.
C1_TextsKeysAreStoreIds == DOMAIN texts = DOMAIN store

\* An entry is held after an earlier delete succeeded and a batch insert
\* has just failed in the store.
C1_Witness ==
    /\ ret.op = "insert_batch_with_embeddings"
    /\ ret.status = RuVectorError
    /\ deleted # {}
    /\ store # <<>>

\* C2.  insert_batch_with_embeddings with texts.len() != embeddings.len() returns
\* DimensionMismatch carrying both counts, calls the store not at all, and
\* leaves the store, the texts map and len() as they were.
C2_MismatchedBatchHasNoEffect ==
    [][(ret'.op = "insert_batch_with_embeddings" /\ Len(ret'.txts) # Len(ret'.vecs))
        => /\ ret'.status = DimensionMismatch
           /\ ret'.expected = Len(ret'.txts)
           /\ ret'.actual = Len(ret'.vecs)
           /\ ret'.calls = <<>>
           /\ store' = store
           /\ texts' = texts
           /\ len' = len]_vars

\* A mismatched batch has been refused on an index that holds entries.
C2_Witness ==
    /\ ret.op = "insert_batch_with_embeddings"
    /\ Len(ret.txts) # Len(ret.vecs)
    /\ ret.status = DimensionMismatch
    /\ len > 0

\* C3 (invariant I2).  insert_with_embedding and insert_batch_with_embeddings
\* reject a vector of another length than the dimension before they call the
\* store: no insert or insert_batch call on the store carries such a vector.
C3_StoreReceivesOnlyDimensionVectors ==
    \A i \in DOMAIN ret.calls :
        ret.calls[i].op \in {"insert", "insert_batch"}
            => \A j \in DOMAIN ret.calls[i].vecs :
                   Len(ret.calls[i].vecs[j]) = dimension

\* C4.  search_filtered returns no candidate without metadata, and with a
\* predicate that rejects every metadata value it returns Ok with an empty list.
C4_FilteredNeverReturnsMissingMetadata ==
    ret.op = "search_filtered" /\ ret.status = "Ok"
        => /\ \A i \in DOMAIN ret.results : ret.results[i].metadata # NoMeta
           /\ ret.accept = {} => ret.results = <<>>

\* C5 (round trip).  Once insert_with_embedding(t, e, m) has returned Ok(id),
\* get(id) yields Some((t, e)), and what get(id) yields stays the same through
\* every later call that is not a successful delete(id) or clear(); a get call
\* returns that value (or the error of the store's own get).
C5_RoundTrip ==
    [][/\ \A id \in Ids :
            (ret'.op = "insert_with_embedding" /\ ret'.status = "Ok" /\ ret'.ids = <<id>>)
                => get(id)' = <<[text |-> ret'.text, vector |-> ret'.vecs[1]]>>
       /\ \A id \in Ids :
            (/\ get(id) # <<>>
             /\ ~(ret'.op = "delete" /\ ret'.id = id /\ ret'.status = "Ok" /\ ret'.flag)
             /\ ~(ret'.op = "clear" /\ ret'.status = "Ok"))
                => get(id)' = get(id)
       /\ (ret'.op = "get" /\ ret'.status = "Ok") => ret'.got = get(ret'.id)]_vars

\* An entry inserted with metadata is still read back with its text after
\* another id has been deleted.
C5_Witness ==
    /\ ret.op = "delete" /\ ret.status = "Ok" /\ ret.flag
    /\ \E id \in Ids \ {ret.id} :
          /\ get(id) # <<>>
          /\ store[id].metadata # NoMeta
          /\ get(id)[1].vector = store[id].vector

\* C6 (delete idempotence).  For an id whose delete has returned Ok(true) and
\* that the store has not assigned since, a further delete(id) returns
\* Ok(false) (the store's own error when its delete call fails) and leaves
\* len(), the store and the texts map unchanged.
C6_DeleteIdempotent ==
    [][(ret'.op = "delete" /\ ret'.id \in deleted)
        => /\ ret'.storeOk => (ret'.status = "Ok" /\ ret'.flag = FALSE)
           /\ ~ret'.storeOk => ret'.status = RuVectorError
           /\ len' = len
           /\ store' = store
           /\ texts' = texts]_vars

\* A deleted id has been deleted again, on an index that holds another entry.
C6_Witness ==
    /\ ret.op = "delete" /\ ret.id \in deleted
    /\ ret.status = "Ok" /\ ~ret.flag
    /\ len > 0

\* C7.  delete(id) calls the store's delete once; it removes the texts entry of
\* id exactly when the store answered true, and returns the store's answer;
\* when the store answers false or fails the texts map is unchanged (the error
\* is returned wrapped); no entry of another id is removed.
C7_DeleteFollowsStore ==
    [][ret'.op = "delete"
        => /\ ret'.calls = <<StoreCall("delete", <<>>, ret'.id, 0, 0)>>
           /\ (ret'.storeOk /\ ret'.storeFlag)
                => /\ ret'.status = "Ok" /\ ret'.flag = TRUE
                   /\ ret'.id \notin DOMAIN texts'
           /\ (ret'.storeOk /\ ~ret'.storeFlag)
                => /\ ret'.status = "Ok" /\ ret'.flag = FALSE
                   /\ texts' = texts
           /\ ~ret'.storeOk
                => /\ ret'.status = RuVectorError
                   /\ texts' = texts
           /\ (ret'.id \in DOMAIN texts /\ ret'.id \notin DOMAIN texts')
                => (ret'.storeOk /\ ret'.storeFlag)
           /\ \A other \in DOMAIN texts \ {ret'.id} :
                other \in DOMAIN texts' /\ texts'[other] = texts[other]]_vars

\* The store has confirmed a removal while another id keeps its text.
C7_Witness ==
    /\ ret.op = "delete" /\ ret.storeOk /\ ret.storeFlag
    /\ ret.id \notin DOMAIN texts
    /\ texts # <<>>

\* C8.  clear() is all or nothing: returning Ok, the store and the texts map are
\* both empty (len() = 0, get(id) = None for every id); returning an error, both
\* are as before; after it returns, either both are empty or neither was touched.
C8_ClearAllOrNothing ==
    [][ret'.op = "clear"
        => /\ ret'.status = "Ok"
                => /\ store' = <<>> /\ texts' = <<>>
                   /\ len' = 0
                   /\ \A id \in Ids : get(id)' = <<>>
           /\ ret'.status # "Ok"
                => /\ ret'.status = RuVectorError
                   /\ texts' = texts /\ store' = store
           /\ \/ store' = <<>> /\ texts' = <<>>
              \/ store' = store /\ texts' = texts]_vars

\* clear() has failed on an index that holds entries and their texts.
C8_Witness ==
    /\ ret.op = "clear" /\ ret.status = RuVectorError
    /\ store # <<>> /\ texts # <<>>

\* results is the first n of the hits at the positions `keep`, in the hits'
\* order, each with the text of its id and the hit's score and metadata.
FirstKept(results, hits, keep, n) ==
    /\ Len(results) = n
    /\ \E f \in [1..n -> keep] :
          /\ \A i, j \in 1..n : i < j => f[i] < f[j]
          /\ \A i \in keep : (\A j \in 1..n : f[j] # i) => \A j \in 1..n : f[j] < i
          /\ \A j \in 1..n :
                results[j] = [id |-> hits[f[j]].id, text |-> texts[hits[f[j]].id],
                              score |-> hits[f[j]].score,
                              metadata |-> hits[f[j]].metadata]

\* C9.  search_with_embedding(v, k) asks the store once, for k hits with search
\* breadth 2*k, and returns exactly the store's hits whose id is a key of the
\* texts map, in the store's order, each with texts[id] and the store's score
\* and metadata; a hit without a text is dropped without an error.
C9_SearchKeepsHitsWithText ==
    ret.op = "search_with_embedding"
        => /\ ret.calls = <<StoreCall("search", ret.vecs, 0, ret.k, 2 * ret.k)>>
           /\ ret.storeOk
                => /\ ret.status = "Ok"
                   /\ ret.hits = StoreSearch(ret.vecs[1], ret.k)
                   /\ LET keep == {i \in DOMAIN ret.hits : ret.hits[i].id \in DOMAIN texts}
                      IN FirstKept(ret.results, ret.hits, keep, Cardinality(keep))
                   /\ Len(ret.results) <= Len(ret.hits)
           /\ ~ret.storeOk => (ret.status = RuVectorError /\ ret.results = <<>>)

\* A search has dropped a hit that has no text and returned another.
C9_Witness ==
    /\ ret.op = "search_with_embedding" /\ ret.status = "Ok"
    /\ Len(ret.results) >= 1
    /\ Len(ret.results) < Len(ret.hits)

\* C10.  search_filtered(query, k, predicate) asks the store once, for 4*k
\* candidates, and returns the first k of them, in the store's order, that have
\* a texts entry and that the filter lets through (the predicate holds of the
\* candidate's metadata; it is not asked about a candidate that has none): at
\* most k results, fewer when fewer survive, and no second query.
C10_FilteredTakesFirstK ==
    ret.op = "search_filtered"
        => /\ ret.status = EmbedderError => ret.calls = <<>>
           /\ ret.status # EmbedderError
                => ret.calls = <<StoreCall("search", <<EmbedOne(ret.text)>>, 0,
                                           4 * ret.k, 4 * ret.k)>>
           /\ ret.status = "Ok"
                => /\ ret.hits = StoreSearch(EmbedOne(ret.text), 4 * ret.k)
                   /\ LET keep == {i \in DOMAIN ret.hits :
                                     /\ ret.hits[i].id \in DOMAIN texts
                                     /\ \/ ret.hits[i].metadata = NoMeta
                                        \/ ret.hits[i].metadata \in ret.accept}
                      IN FirstKept(ret.results, ret.hits, keep,
                                   IF Cardinality(keep) < ret.k
                                   THEN Cardinality(keep) ELSE ret.k)
                   /\ Len(ret.results) <= ret.k

\* Two candidates survive the filter and k = 1 keeps the first only.
C10_Witness ==
    /\ ret.op = "search_filtered" /\ ret.status = "Ok"
    /\ ret.k = 1
    /\ Len(ret.hits) = 2
    /\ \A i \in DOMAIN ret.hits :
          /\ ret.hits[i].id \in DOMAIN texts
          /\ ret.hits[i].metadata \in ret.accept
    /\ Len(ret.results) = 1

\* C11.  A successful insert_batch_with_embeddings(texts, vectors), called
\* directly or by insert_batch with the embedded texts, returns as many ids as
\* there are texts, and get(ids[i]) is (texts[i], vectors[i]) at every position
\* i: no text is recorded under another position's id.
C11_BatchZipsIdsWithTexts ==
    (ret.op \in {"insert_batch_with_embeddings", "insert_batch"} /\ ret.status = "Ok") =>
        LET vectors == IF ret.op = "insert_batch" THEN Embed(ret.txts) ELSE ret.vecs IN
        /\ Len(ret.ids) = Len(ret.txts)
        /\ \A i \in DOMAIN ret.txts :
              get(ret.ids[i]) = <<[text |-> ret.txts[i], vector |-> vectors[i]]>>

\* A batch of two different texts with two different vectors went in.
C11_Witness ==
    /\ ret.op = "insert_batch_with_embeddings"
    /\ ret.status = "Ok"
    /\ Len(ret.ids) = 2
    /\ ret.txts[1] # ret.txts[2]
    /\ ret.vecs[1] # ret.vecs[2]

\* C12.  insert and insert_batch whose embedding step fails return the
\* embedder's error as it was raised, make no store call and leave the store and
\* the texts map as they were; search and search_filtered whose embedding step
\* fails return that error without querying the store.
C12_EmbeddingErrorPassedOn ==
    [][(ret'.op \in {"insert", "insert_batch", "search", "search_filtered"}
          /\ ~ret'.embedOk) =>
            /\ ret'.status = "Embedding"
            /\ ret'.calls = <<>>
            /\ ret'.ids = <<>> /\ ret'.results = <<>>
            /\ store' = store
            /\ texts' = texts]_vars

\* An insert failed in its embedding step while the store held an entry.
C12_Witness ==
    /\ ret.op = "insert"
    /\ ~ret.embedOk
    /\ ret.status = EmbedderError
    /\ store # <<>>

RECURSIVE LastSet(_, _, _)
\* The value of the last call of `field`'s setter in a history, or `default`.
LastSet(setters, field, default) ==
    IF setters = <<>> THEN default
    ELSE LET last == setters[Len(setters)] IN
         IF last.field = field THEN last.value
         ELSE LastSet(SubSeq(setters, 1, Len(setters) - 1), field, default)

\* C13.  build() after setter calls that do not include embedder() returns
\* InvalidConfiguration and calls no constructor; after setter calls that include
\* embedder() it calls the RuVectorEmbeddings constructor once, with the last
\* value set for each of distance, m, ef_construction and max_elements and the
\* defaults (cosine, 16, 100, 100000) for the fields never set, and returns what
\* the constructor returns.
C13_BuildNeedsEmbedder ==
    builder.built # NotBuilt =>
        IF LastSet(builder.setters, "embedder", "None") = "None"
        THEN /\ builder.built.status = InvalidConfiguration
             /\ builder.built.constructed = <<>>
        ELSE /\ builder.built.status \in {"Ok", RuVectorError}
             /\ builder.built.constructed =
                    <<[name |-> IndexName,
                       config |-> [distance |-> LastSet(builder.setters, "distance", "Cosine"),
                                   m |-> LastSet(builder.setters, "m", 16),
                                   ef_construction |->
                                       LastSet(builder.setters, "ef_construction", 100),
                                   max_elements |->
                                       LastSet(builder.setters, "max_elements", 100000)]]>>

\* build() ran after m was set twice, to different values, and the embedder once.
C13_Witness ==
    /\ builder.built.status = "Ok"
    /\ Len(builder.setters) = 3
    /\ \E i, j \in DOMAIN builder.setters :
          /\ i < j
          /\ builder.setters[i].field = "m" /\ builder.setters[j].field = "m"
          /\ builder.setters[i].value # builder.setters[j].value

\* build() refused a builder whose distance and m were set, but no embedder.
C13_WitnessRefused ==
    /\ builder.built.status = InvalidConfiguration
    /\ LastSet(builder.setters, "distance", "Cosine") # "Cosine"
    /\ LastSet(builder.setters, "m", 16) # 16

\* C14.  Applied to vectors a and b of differing length, each of l2_distance_arr,
\* inner_product_arr, neg_inner_product_arr, cosine_distance_arr,
\* cosine_similarity_arr, l1_distance_arr, vector_add, vector_sub and vector_avg2
\* fails with an error that reports both lengths, and computes no result;
\* vector_mul_scalar never fails.
C14_MismatchReportsBothLengths ==
    /\ (/\ applied.fn \in {"l2_distance_arr", "inner_product_arr", "neg_inner_product_arr",
                            "cosine_distance_arr", "cosine_similarity_arr",
                            "l1_distance_arr", "vector_add", "vector_sub", "vector_avg2"}
        /\ Len(applied.a) # Len(applied.b)) =>
            /\ ~applied.result.ok
            /\ applied.result.lens = <<Len(applied.a), Len(applied.b)>>
            /\ applied.result.value = <<>>
            /\ applied.result.vector = <<>>
    /\ applied.fn = "vector_mul_scalar" =>
            /\ applied.result.ok
            /\ Len(applied.result.vector[1]) = Len(applied.a)

\* The six distance functions alone: the part of C14 that the arithmetic
\* functions do not share.
DistanceMismatchReportsBothLengths ==
    (/\ applied.fn \in {"l2_distance_arr", "inner_product_arr", "neg_inner_product_arr",
                         "cosine_distance_arr", "cosine_similarity_arr", "l1_distance_arr"}
     /\ Len(applied.a) # Len(applied.b)) =>
        /\ ~applied.result.ok
        /\ applied.result.lens = <<Len(applied.a), Len(applied.b)>>
        /\ applied.result.value = <<>>
        /\ applied.result.vector = <<>>

RECURSIVE DotProduct(_, _)
\* a[1] * b[1] + .. + a[n] * b[n], in 1/Scale
DotProduct(a, b) ==
    IF a = <<>> THEN 0
    ELSE (Head(a).milli * Head(b).milli) \div Scale + DotProduct(Tail(a), Tail(b))

\* C15.  For vectors a and b of equal length, inner_product_arr(a, b) is the dot
\* product of a and b (32 for [1,2,3] and [4,5,6]) and neg_inner_product_arr(a, b)
\* is its negation; of two vectors b and c, the one with the larger dot product
\* with a has the smaller neg_inner_product_arr.
C15_InnerProductSign ==
    /\ (applied.fn = "inner_product_arr" /\ Len(applied.a) = Len(applied.b)) =>
            applied.result.value = <<Num(DotProduct(applied.a, applied.b))>>
    /\ (applied.fn = "neg_inner_product_arr" /\ Len(applied.a) = Len(applied.b)) =>
            /\ applied.result.value = <<Num(0 - DotProduct(applied.a, applied.b))>>
            /\ inner_product_arr(applied.a, applied.b).value[1]
                    = FNeg(applied.result.value[1])
            /\ \A c \in FloatVectors :
                  (/\ Len(c) = Len(applied.a)
                   /\ DotProduct(applied.a, c) > DotProduct(applied.a, applied.b)) =>
                      neg_inner_product_arr(applied.a, c).value[1].milli
                          < applied.result.value[1].milli
    /\ applied.fn = "inner_product_arr" =>
            inner_product_arr(<<FromInt(1), FromInt(2), FromInt(3)>>,
                              <<FromInt(4), FromInt(5), FromInt(6)>>) = Scalar(FromInt(32))

\* neg_inner_product_arr was applied to two vectors with a nonzero dot product.
C15_Witness ==
    /\ applied.fn = "neg_inner_product_arr"
    /\ Len(applied.a) = 2 /\ Len(applied.b) = 2
    /\ DotProduct(applied.a, applied.b) < 0
    /\ applied.result.value[1].milli > 0

\* C16.  vector_normalize returns its argument as it is, and divides by nothing,
\* when the argument's L2 norm is zero (the empty vector and the all-zero vectors
\* among them); otherwise it returns a vector of the same length whose i-th
\* element is v[i] divided by the norm.  It never divides by zero.
C16_NormalizeZeroNormIsNoOp ==
    applied.fn = "vector_normalize" =>
        LET v == applied.a
            norm == vector_norm(v).value[1]
            out == applied.result IN
        /\ out.ok
        /\ Len(out.vector[1]) = Len(v)
        /\ \A i \in DOMAIN out.divisor : IsNum(out.divisor[i]) /\ out.divisor[i].milli # 0
        /\ (\A i \in DOMAIN v : v[i] = Zero) => norm = Zero
        /\ IF norm = Zero
           THEN out.vector[1] = v /\ out.divisor = <<>>
           ELSE /\ out.divisor = <<norm>>
                /\ \A i \in DOMAIN v :
                     LET rest == v[i].milli * Scale - out.vector[1][i].milli * norm.milli IN
                     IsNum(out.vector[1][i]) /\ 0 <= rest /\ rest < norm.milli

\* vector_normalize was applied to a vector of two zeros.
C16_Witness ==
    /\ applied.fn = "vector_normalize"
    /\ applied.a = <<Zero, Zero>>
    /\ applied.result.vector = <<applied.a>>

\* vector_normalize was applied to [3, -4], of norm 5.
C16_WitnessScaled ==
    /\ applied.fn = "vector_normalize"
    /\ applied.a = <<Num(3000), Num(0 - 4000)>>
    /\ applied.result.vector = <<(<<Num(600), Num(0 - 800)>>)>>

\* C17.  vector_dims returns the element count of its argument as an i32; for
\* a count beyond the i32 range it fails or returns i32::MAX, and it never
\* returns a negative or wrapped-around count.
C17_DimsNeverWraps ==
    (applied.fn = "vector_dims" /\ applied.result.ok) =>
        LET dims == applied.result.dims[1] IN
        /\ dims >= 0
        /\ IF applied.count.hi < Half \div 2
           THEN USize(dims) = applied.count
           ELSE dims = (Half \div 2 - 1) * Half + (Half - 1)

\* C18.  retrieve(query) returns the text fields of index.search(query, top_k),
\* in the same order and number (at most top_k); format_context(query) emits
\* "Context:", those texts numbered 1, 2, .. in that order, and the query after
\* "Question: "; both return the error of the index as index.search returned it,
\* and neither changes the index.
C18_RetrieveReturnsSearchTexts ==
    [][ret'.op = "search" =>
        /\ ret'.text = rag'.query
        /\ ret'.k = top_k
        /\ rag'.status = ret'.status
        /\ store' = store
        /\ texts' = texts
        /\ ret'.status # "Ok" => rag'.contexts = <<>> /\ rag'.prompt = <<>>
        /\ ret'.status = "Ok" =>
            LET n == Len(ret'.results) IN
            /\ Len(rag'.contexts) = n
            /\ n <= top_k
            /\ \A i \in 1..n : rag'.contexts[i] = ret'.results[i].text
            /\ rag'.op = "format_context" =>
                /\ Len(rag'.prompt) = 5 * n + 3
                /\ rag'.prompt[1] = "Context:\n"
                /\ \A i \in 1..n :
                      SubSeq(rag'.prompt, 5 * i - 3, 5 * i + 1)
                          = <<"[", ToString(i), "] ", ret'.results[i].text, "\n">>
                /\ SubSeq(rag'.prompt, 5 * n + 2, 5 * n + 3)
                          = <<"\nQuestion: ", rag'.query>>]_vars

\* format_context numbered two different texts; the store had ranked them.
C18_Witness ==
    /\ rag.op = "format_context"
    /\ rag.status = "Ok"
    /\ Len(rag.contexts) = 2
    /\ rag.contexts[1] # rag.contexts[2]
    /\ ret.op = "search"

\* retrieve returned the error of the embedder.
C18_WitnessError ==
    /\ rag.op = "retrieve"
    /\ rag.status = EmbedderError
    /\ store # <<>>

\* C19.  When insert_batch_with_embeddings, called directly or by insert_batch,
\* has returned a store error, no VectorId is in the store without an entry in
\* the texts map, even if the store had inserted some of the batch's entries
\* before it failed.
C19_FailedBatchLeavesNoOrphan ==
    (ret.op \in {"insert_batch_with_embeddings", "insert_batch"}
        /\ ret.status = RuVectorError) =>
            DOMAIN store \subseteq DOMAIN texts

\* C20.  A successful delete(id) or clear() takes the id out of the texts map,
\* an id comes back into the map only when the store assigns it to a new insert,
\* and no get, search, search_with_embedding or search_filtered returns an id
\* that is not a key of the texts map at the time of the call, whatever the
\* store returns as hits: an id deleted or cleared is not returned until it is
\* assigned again.
C20_RemovedIdsNotReturned ==
    [][/\ \A id \in Ids :
            (ret'.op = "delete" /\ ret'.id = id /\ ret'.status = "Ok" /\ ret'.flag) =>
                id \notin DOMAIN texts'
       /\ (ret'.op = "clear" /\ ret'.status = "Ok") => DOMAIN texts' = {}
       /\ \A id \in Ids :
            (id \notin DOMAIN texts /\ id \in DOMAIN texts') =>
                /\ ret'.op \in {"insert", "insert_with_embedding", "insert_batch",
                                "insert_batch_with_embeddings"}
                /\ ret'.status = "Ok"
                /\ \E i \in DOMAIN ret'.ids : ret'.ids[i] = id
       /\ (ret'.op \in {"search", "search_with_embedding", "search_filtered"}
             /\ ret'.status = "Ok") =>
                \A i \in DOMAIN ret'.results :
                    /\ ret'.results[i].id \in DOMAIN texts
                    /\ ret'.results[i].id \notin deleted
       /\ (ret'.op = "get" /\ ret'.status = "Ok" /\ ret'.got # <<>>) =>
                ret'.id \in DOMAIN texts /\ ret'.id \notin deleted
      ]_vars

\* After a delete, a search got a hit from the store for an id that the texts
\* map does not hold, and did not return it.
C20_Witness ==
    /\ ret.op = "search_with_embedding"
    /\ ret.status = "Ok"
    /\ deleted # {}
    /\ \E i \in DOMAIN ret.hits : ret.hits[i].id \notin DOMAIN texts
    /\ Len(ret.results) < Len(ret.hits)

\* C21.  search, search_with_embedding, search_filtered, get, len, is_empty,
\* name and dimension, and the pipeline's retrieve and format_context, leave the
\* store, the texts map, the name and the configuration as they were, whether
\* they return Ok or an error; a step that changes the store or the texts map is
\* an insert, insert_with_embedding, insert_batch, insert_batch_with_embeddings,
\* delete or clear.
C21_ReadsChangeNothing ==
    [][/\ (\/ ret'.op \in {"search", "search_with_embedding", "search_filtered", "get",
                            "len", "is_empty", "name", "dimension"}
           \/ rag'.op \in {"retrieve", "format_context"}) =>
                store' = store /\ texts' = texts /\ created' = created
       /\ (store' # store \/ texts' # texts) =>
                ret'.op \in {"insert", "insert_with_embedding", "insert_batch",
                             "insert_batch_with_embeddings", "delete", "clear"}
       /\ created' = created
      ]_vars

\* format_context returned an error over an index that holds an entry without
\* a text and an entry with one.
C21_Witness ==
    /\ rag.op = "format_context"
    /\ rag.status = RuVectorError
    /\ ret.op = "search"
    /\ DOMAIN texts # {}
    /\ DOMAIN store # DOMAIN texts
====
